---- MODULE Spec2Model ----
(***************************************************************************)
(* A model of the paging simulator: the coordinator (src/oss.cpp) and its  *)
(* workers (src/worker.cpp).  The coordinator's main loop is modelled one  *)
(* action per phase (tick, reap, snapshot/admit, receive, fault service);  *)
(* the workers run as separate processes whose steps interleave with the   *)
(* coordinator's phases and share the clock words and the message queue.   *)
(***************************************************************************)
EXTENDS Integers, Sequences, FiniteSets, TLC

VARIABLES
    shm_ptr,       \* the shared clock: shm_ptr[0] seconds, shm_ptr[1] nanoseconds
    processTable,  \* PCB table, slots 0..MAX_PROC-1
    frameTable,    \* frame table, frames 0..FRAME_NUM-1
    waitQueue,     \* queue<int> of PCB slots with a pending fault
    running,       \* workers forked and not yet reaped
    total,         \* workers forked so far
    totRefs,       \* requests received
    totFaults,     \* requests classified as page faults
    nSpawnT,       \* next spawn time in ns
    lastPrintSec,  \* clock at the last snapshot
    lastPrintNs,
    options,       \* command line: proc, simul, interval (ns)
    msgq,          \* the System V message queue, oldest message first
    pc,            \* the coordinator's position in its loop
    iter,          \* loop iterations started (bounds the run)
    wpc,           \* each worker's position, by pid
    cop,           \* SpecClock: the coordinator's clock operation in progress
    creg,          \* SpecClock: the coordinator's register
    wreg,          \* SpecClock: each worker's register
    killed,        \* pids the watchdog's handler has sent SIGKILL
    ipc            \* the clock region and the message queue: attached, removed

vars == <<shm_ptr, processTable, frameTable, waitQueue, running, total, totRefs,
          totFaults, nSpawnT, lastPrintSec, lastPrintNs, options, msgq, pc, iter,
          wpc, cop, creg, wreg, killed, ipc>>

----------------------------------------------------------------------------
\* Bounds of the model.

Min(S) == CHOOSE x \in S : \A y \in S : x <= y

Max(S) == CHOOSE x \in S : \A y \in S : x >= y

\* PCB slots (MAX_PROC is 18 in src/oss.cpp:32; scaled down).
MAX_PROC == 2
\* Frames (FRAME_NUM is 256 in src/oss.cpp:33; scaled down so that eviction happens).
FRAME_NUM == 2
\* Loop iterations of the coordinator that a run may start.
MaxIter == 5
\* SpecClock: clock operations that may be started.
MaxClockOps == 3
\* SpecExit: loop iterations that a run may start.
MaxExitIter == 3
\* SpecRaceHit: loop iterations that a run may start.
MaxRaceHitIter == 4
\* SpecReuse: loop iterations that a run may start.
MaxReuseIter == 12
\* SpecRace: loop iterations that a run may start.
MaxRaceIter == 3
\* SpecSpawn: the second of the clock at which the loop stops ticking.
MaxSpawnSec == 6

\* The command lines of the model, -n proc -s simul -i interval: two workers side
\* by side, and two workers one after the other (the second takes the first's slot).
OptionSets ==
    { [proc |-> 2, simul |-> 2, interval |-> 0],
      [proc |-> 2, simul |-> 1, interval |-> 0] }

\* SpecSpawn: command lines with a spawn interval (-i 2140, -i 1000, in ns).
SpawnOptionSets ==
    { [proc |-> 2, simul |-> 2, interval |-> 2140000000],
      [proc |-> 3, simul |-> 2, interval |-> 1000000000] }

\* The most workers a run forks.
MaxProcOpt == Max({ o.proc : o \in OptionSets })

\* The addresses the workers draw (rand() % 32768): pages 0 and 1, at two offsets.
Addresses == {0, 1536}

----------------------------------------------------------------------------
\* Program constants.

PAGE_TABLE_LEN == 32
PAGE_SIZE == 1024
NS_PER_SEC == 1000000000
TICK_NS == 10000000
OVERHEAD_NS == 1000
HIT_NS == 100
FAULT_LAT_NS == 14000000
WRITE_LAT_NS == 1000000
PRINT_NS == 1000000000
WORKER_ADD_NS == 1000
LIFE_NS == 2000000000

Slots == 0 .. (MAX_PROC - 1)
Frames == 0 .. (FRAME_NUM - 1)
Pages == 0 .. (PAGE_TABLE_LEN - 1)
\* The pid fork() gives the k-th worker (k = 0, 1, ...): fresh, and never 1,
\* which is init's (and the message type of requests).
ForkPid(k) == k + 2

Pids == { ForkPid(k) : k \in 0 .. (MaxProcOpt - 1) }

----------------------------------------------------------------------------
\* The clock.

Clock(s, n) == [i \in 0 .. 1 |-> IF i = 0 THEN s ELSE n]

\* shm_ptr[1] += ns, then one carry into seconds when nanoseconds >= 1e9.
AddNs(clk, ns) ==
    LET n == clk[1] + ns
    IN  IF n >= NS_PER_SEC THEN Clock(clk[0] + 1, n - NS_PER_SEC)
                           ELSE Clock(clk[0], n)

incrementClock(clk) == AddNs(clk, TICK_NS)

addOverhead(clk) == AddNs(clk, OVERHEAD_NS)

\* The extra 100 ns of a hit.
addHit(clk) == AddNs(clk, HIT_NS)

\* (long long)shm_ptr[0] * 1000000000 + shm_ptr[1]
TimeNs(s, n) == s * NS_PER_SEC + n

\* The worker's addTime: shm_ptr[1] += 1000, then a carry only when the
\* nanoseconds word is > 1e9.
addTime(clk) ==
    LET n == clk[1] + WORKER_ADD_NS
    IN  IF n > NS_PER_SEC THEN Clock(clk[0] + 1, n - NS_PER_SEC)
                          ELSE Clock(clk[0], n)

\* No clock operation in progress (SpecClock).
Idle == [op |-> "none", at |-> "idle"]

----------------------------------------------------------------------------
\* Tables.

EmptyPCB ==
    [occupied |-> 0, pid |-> -1, startSeconds |-> 0, startNano |-> 0,
     pageTable |-> [p \in Pages |-> -1], waiting |-> FALSE, waitPage |-> -1,
     waitIsWrite |-> FALSE, waitSec |-> 0, waitNano |-> 0]

EmptyFrame ==
    [occupied |-> FALSE, dirty |-> FALSE, ownerPid |-> -1, pageNum |-> -1,
     lastRefSec |-> 0, lastRefNano |-> 0]

\* The first slot, scanning upward below `limit`, that is occupied by `pid`; -1 if none.
FindSlot(pt, pid, limit) ==
    LET hits == { i \in Slots : i < limit /\ pt[i].occupied = 1 /\ pt[i].pid = pid }
    IN  IF hits = {} THEN -1 ELSE Min(hits)

\* The first unoccupied slot; -1 if none.
FirstFreeSlot(pt) ==
    LET free == { i \in Slots : pt[i].occupied = 0 }
    IN  IF free = {} THEN -1 ELSE Min(free)

\* The first unoccupied frame; -1 if none.
FirstFreeFrame(ft) ==
    LET free == { j \in Frames : ~ft[j].occupied }
    IN  IF free = {} THEN -1 ELSE Min(free)

\* OldestFrame with the comparison turned round: the largest last reference time.
NewestFrame(ft) ==
    LET t(j) == TimeNs(ft[j].lastRefSec, ft[j].lastRefNano)
    IN  Min({ j \in Frames : \A k \in Frames : t(j) >= t(k) })

\* The frame with the smallest last reference time, the lowest index among equals.
OldestFrame(ft) ==
    LET t(j) == TimeNs(ft[j].lastRefSec, ft[j].lastRefNano)
    IN  Min({ j \in Frames : \A k \in Frames : t(j) <= t(k) })

----------------------------------------------------------------------------
\* The message queue.

Request(pid, address, isWrite) ==
    [mtype |-> 1, pid |-> pid, address |-> address, isWrite |-> isWrite,
     granted |-> FALSE]

\* Grant with the reply addressed to the pid after the requester's.
GrantNextPid(pid) ==
    [mtype |-> pid + 1, pid |-> 0, address |-> 0, isWrite |-> FALSE, granted |-> TRUE]

\* The coordinator's reply: buf with mtype and granted set.
Grant(pid) ==
    [mtype |-> pid, pid |-> 0, address |-> 0, isWrite |-> FALSE, granted |-> TRUE]

HasMsg(q, mtype) == \E k \in 1 .. Len(q) : q[k].mtype = mtype

FirstMsgAt(q, mtype) == Min({ k \in 1 .. Len(q) : q[k].mtype = mtype })

RemoveAt(q, k) == SubSeq(q, 1, k - 1) \o SubSeq(q, k + 1, Len(q))

----------------------------------------------------------------------------
\* The shared resources after shareMem() and msgget(): the clock region is
\* attached, and neither the region nor the queue has been removed.
IpcUp == [attached |-> TRUE, shmRemoved |-> 0, msqRemoved |-> 0]

----------------------------------------------------------------------------
\* Construction: main up to the loop.

Init ==
    /\ shm_ptr = Clock(0, 0)
    /\ processTable = [i \in Slots |-> EmptyPCB]
    /\ frameTable = [j \in Frames |-> EmptyFrame]
    /\ waitQueue = <<>>
    /\ running = 0
    /\ total = 0
    /\ totRefs = 0
    /\ totFaults = 0
    /\ options \in OptionSets
    /\ nSpawnT = TimeNs(0, 0) + options.interval
    /\ lastPrintSec = 0
    /\ lastPrintNs = 0
    /\ msgq = <<>>
    /\ pc = "loop"
    /\ iter = 0
    /\ wpc = [w \in Pids |-> "unborn"]
    /\ cop = Idle
    /\ creg = 0
    /\ wreg = [w \in Pids |-> 0]
    /\ killed = {}
    /\ ipc = IpcUp

----------------------------------------------------------------------------
\* The coordinator's loop.

\* The loop condition without the test running > 0.
LoopCondAdmissionsOnly == total < options.proc

\* while (total < options.proc || running > 0)
LoopCond == total < options.proc \/ running > 0

\* The loop test passes: incrementClock().
LoopTick ==
    /\ pc = "loop"
    /\ LoopCond
    /\ iter < MaxIter
    /\ shm_ptr' = incrementClock(shm_ptr)
    /\ iter' = iter + 1
    /\ pc' = "reap"
    /\ UNCHANGED <<processTable, frameTable, waitQueue, running, total, totRefs,
                   totFaults, nSpawnT, lastPrintSec, lastPrintNs, options, msgq,
                   wpc, cop, creg, wreg, killed, ipc>>

\* The loop test fails: the loop is left.
LoopExit ==
    /\ pc = "loop"
    /\ ~LoopCond
    /\ pc' = "done"
    /\ UNCHANGED <<shm_ptr, processTable, frameTable, waitQueue, running, total,
                   totRefs, totFaults, nSpawnT, lastPrintSec, lastPrintNs, options,
                   msgq, iter, wpc, cop, creg, wreg, killed, ipc>>

\* The slot the reap loop's scan leaves in indx: the scan runs below options.proc,
\* and indx is uninitialised (any slot) when the scan finds nothing.
ReapIndexes(pt, pid) ==
    LET found == FindSlot(pt, pid, options.proc)
    IN  IF found = -1 THEN Slots ELSE {found}

\* Reap, the PCB part: waiting cleared (32 times over), occupied cleared.
ReapPCB(pt, indx) ==
    [pt EXCEPT ![indx].waiting = FALSE, ![indx].occupied = 0]

\* ReapFrames without the line frameTable[i].occupied = false.
ReapFramesKeepOccupied(ft, pid) ==
    [j \in Frames |->
        IF ft[j].ownerPid = pid
        THEN [ft[j] EXCEPT !.ownerPid = -1, !.pageNum = -1, !.dirty = FALSE]
        ELSE ft[j]]

\* ReapFrames without the line frameTable[i].ownerPid = -1.
ReapFramesKeepOwner(ft, pid) ==
    [j \in Frames |->
        IF ft[j].ownerPid = pid
        THEN [ft[j] EXCEPT !.occupied = FALSE, !.pageNum = -1, !.dirty = FALSE]
        ELSE ft[j]]

\* Reap, the frame part: every frame whose ownerPid is pid is cleared.
ReapFrames(ft, pid) ==
    [j \in Frames |->
        IF ft[j].ownerPid = pid
        THEN [ft[j] EXCEPT !.occupied = FALSE, !.ownerPid = -1, !.pageNum = -1,
                           !.dirty = FALSE]
        ELSE ft[j]]

\* One round of while ((pid = waitpid(-1, &status, WNOHANG)) > 0).
Reap(pid) ==
    /\ pc = "reap"
    /\ wpc[pid] = "exited"
    /\ \E indx \in ReapIndexes(processTable, pid) :
          processTable' = ReapPCB(processTable, indx)
    /\ frameTable' = ReapFrames(frameTable, pid)
    /\ running' = running - 1
    /\ wpc' = [wpc EXCEPT ![pid] = "reaped"]
    /\ UNCHANGED <<shm_ptr, waitQueue, total, totRefs, totFaults, nSpawnT,
                   lastPrintSec, lastPrintNs, options, msgq, pc, iter, cop, creg, wreg, killed, ipc>>

\* Time since the last snapshot, in ns.
PrintTotDiff ==
    LET dsec == shm_ptr[0] - lastPrintSec
        dns == shm_ptr[1] - lastPrintNs
    IN  IF dns < 0 THEN (dsec - 1) * NS_PER_SEC + (dns + NS_PER_SEC)
                   ELSE dsec * NS_PER_SEC + dns

\* waitpid finds no terminated child; then the periodic snapshot.
ReapDone ==
    /\ pc = "reap"
    /\ \A w \in Pids : wpc[w] # "exited"
    /\ IF PrintTotDiff >= PRINT_NS
       THEN /\ lastPrintSec' = shm_ptr[0]
            /\ lastPrintNs' = shm_ptr[1]
       ELSE UNCHANGED <<lastPrintSec, lastPrintNs>>
    /\ pc' = "admit"
    /\ UNCHANGED <<shm_ptr, processTable, frameTable, waitQueue, running, total,
                   totRefs, totFaults, nSpawnT, options, msgq, iter, wpc, cop, creg, wreg, killed, ipc>>

\* CanSpawn without the test running < options.simul.
CanSpawnAnyRunning ==
    /\ TimeNs(shm_ptr[0], shm_ptr[1]) >= nSpawnT
    /\ total < options.proc

\* if (currTimeNs >= nSpawnT && total < options.proc && running < options.simul)
CanSpawn ==
    /\ TimeNs(shm_ptr[0], shm_ptr[1]) >= nSpawnT
    /\ total < options.proc
    /\ running < options.simul

\* The new child's entry goes into the first unoccupied slot.
AdmitPCB(pt, childPid, clk) ==
    LET i == FirstFreeSlot(pt)
    IN  IF i = -1 THEN pt
        ELSE [pt EXCEPT ![i].occupied = 1, ![i].pid = childPid,
                        ![i].startSeconds = clk[0], ![i].startNano = clk[1]]

\* Fork a worker when one is due. The next spawn time is computed in int
\* (shm_ptr[0] * 1000000000 + shm_ptr[1]); seconds stay 0 within MaxIter
\* iterations, where int and long long agree.
Admit ==
    /\ pc = "admit"
    /\ IF CanSpawn
       THEN LET childPid == ForkPid(total)
                clk == incrementClock(shm_ptr)
            IN  /\ total' = total + 1
                /\ running' = running + 1
                /\ shm_ptr' = clk
                /\ processTable' = AdmitPCB(processTable, childPid, clk)
                /\ nSpawnT' = TimeNs(clk[0], clk[1]) + options.interval
                /\ wpc' = [wpc EXCEPT ![childPid] = "loop"]
       ELSE UNCHANGED <<total, running, shm_ptr, processTable, nSpawnT, wpc>>
    /\ pc' = "recv"
    /\ UNCHANGED <<frameTable, waitQueue, totRefs, totFaults, lastPrintSec,
                   lastPrintNs, options, msgq, iter, cop, creg, wreg, killed, ipc>>

\* unsigned page = rcvbuf.address / 1024
PageOf(address) == address \div PAGE_SIZE

\* HitFrame without the update of the last reference time.
HitFrameKeepRef(ft, frame, isWrite, clk) ==
    [ft EXCEPT ![frame].dirty = IF isWrite THEN TRUE ELSE @]

\* HitFrame with the dirty bit set on a read as well.
HitFrameDirtyOnRead(ft, frame, isWrite, clk) ==
    [ft EXCEPT ![frame].lastRefSec = clk[0], ![frame].lastRefNano = clk[1],
               ![frame].dirty = TRUE]

\* A hit: the frame's last reference time; the dirty bit on a write.
HitFrame(ft, frame, isWrite, clk) ==
    [ft EXCEPT ![frame].lastRefSec = clk[0], ![frame].lastRefNano = clk[1],
               ![frame].dirty = IF isWrite THEN TRUE ELSE @]

\* A page fault: the slot is marked waiting with the page, the mode and the time.
RecordFault(pt, slot, page, isWrite, clk) ==
    [pt EXCEPT ![slot].waiting = TRUE, ![slot].waitPage = page,
               ![slot].waitIsWrite = isWrite, ![slot].waitSec = clk[0],
               ![slot].waitNano = clk[1]]

\* The bad-address exit with a reply sent to the requester first.
RejectedWithReply(rest, pid) == Append(rest, Grant(pid))

\* The bad-address exit: exit(1) with nothing sent; the queue keeps what is left.
Rejected(rest, pid) == rest

\* totRefs++ with the increment left out.
RefCountKept(n) == n

\* totRefs++, for every request received.
RefCount(n) == n + 1

\* totFaults++, for a request whose page is in no frame.
FaultCount(n) == n + 1

\* msgrcv(..., 1, IPC_NOWAIT): at most one request is taken and classified.
Receive ==
    /\ pc = "recv"
    /\ IF HasMsg(msgq, 1)
       THEN LET k == FirstMsgAt(msgq, 1)
                m == msgq[k]
                rest == RemoveAt(msgq, k)
                slot == FindSlot(processTable, m.pid, MAX_PROC)
                page == PageOf(m.address)
            IN  /\ totRefs' = RefCount(totRefs)
                /\ IF page >= PAGE_TABLE_LEN
                   THEN /\ pc' = "exit1"
                        /\ msgq' = Rejected(rest, m.pid)
                        /\ UNCHANGED <<shm_ptr, processTable, frameTable, waitQueue,
                                       totFaults>>
                   ELSE LET frame == processTable[slot].pageTable[page]
                        IN  IF frame # -1
                            THEN LET clk == addHit(addOverhead(shm_ptr))
                                 IN  /\ shm_ptr' = clk
                                     /\ frameTable' = HitFrame(frameTable, frame, m.isWrite, clk)
                                     /\ msgq' = Append(rest, Grant(m.pid))
                                     /\ pc' = "service"
                                     /\ UNCHANGED <<processTable, waitQueue, totFaults>>
                            ELSE /\ totFaults' = FaultCount(totFaults)
                                 /\ processTable' = RecordFault(processTable, slot, page,
                                                                m.isWrite, shm_ptr)
                                 /\ waitQueue' = Append(waitQueue, slot)
                                 /\ msgq' = rest
                                 /\ pc' = "service"
                                 /\ UNCHANGED <<shm_ptr, frameTable>>
       ELSE /\ pc' = "service"
            /\ UNCHANGED <<shm_ptr, processTable, frameTable, waitQueue, totRefs,
                           totFaults, msgq>>
    /\ UNCHANGED <<running, total, nSpawnT, lastPrintSec, lastPrintNs, options,
                   iter, wpc, cop, creg, wreg, killed, ipc>>

----------------------------------------------------------------------------
\* Fault service.

\* lruReplacement, the eviction: the victim frame's owner loses its page-table entry.
EvictOwner(pt, ft, frame) ==
    LET owner == FindSlot(pt, ft[frame].ownerPid, MAX_PROC)
    IN  IF owner = -1 THEN pt
        ELSE [pt EXCEPT ![owner].pageTable[ft[frame].pageNum] = -1]

\* The frame lruReplacement picks: the first free one, else the oldest.
PickFrame(ft) ==
    IF FirstFreeFrame(ft) # -1 THEN FirstFreeFrame(ft) ELSE OldestFrame(ft)

\* The page-table entry and the frame as lruReplacement and its caller leave them.
InstallPCB(pt, slot, page, frame) ==
    [pt EXCEPT ![slot].pageTable[page] = frame]

\* InstallFrame with the dirty bit set whatever the mode.
InstallFrameDirty(ft, frame, pid, page, isWrite, clk) ==
    [ft EXCEPT ![frame] = [occupied |-> TRUE, dirty |-> TRUE, ownerPid |-> pid,
                           pageNum |-> page, lastRefSec |-> clk[0],
                           lastRefNano |-> clk[1]]]

InstallFrame(ft, frame, pid, page, isWrite, clk) ==
    [ft EXCEPT ![frame] = [occupied |-> TRUE, dirty |-> isWrite, ownerPid |-> pid,
                           pageNum |-> page, lastRefSec |-> clk[0],
                           lastRefNano |-> clk[1]]]

\* lruReplacement(slot): the tables after it and the frame it returns.
lruReplacement(pt, ft, slot, clk) ==
    LET page == pt[slot].waitPage
        frame == PickFrame(ft)
        pt1 == IF FirstFreeFrame(ft) = -1 THEN EvictOwner(pt, ft, frame) ELSE pt
    IN  [frame |-> frame,
         pt |-> InstallPCB(pt1, slot, page, frame),
         ft |-> InstallFrame(ft, frame, pt[slot].pid, page, pt[slot].waitIsWrite, clk)]

\* LatNs with the latencies taken in microseconds: 14 * 1000 and 1000.
LatNsMicros(isWrite) ==
    (FAULT_LAT_NS \div 1000) + (IF isWrite THEN WRITE_LAT_NS \div 1000 ELSE 0)

\* long long latNs = 14 * 1000000; if (waitIsWrite) latNs += 1000000;
LatNs(isWrite) == FAULT_LAT_NS + (IF isWrite THEN WRITE_LAT_NS ELSE 0)

\* ServiceDue with the elapsed time taken from the seconds words alone.
ServiceDueSeconds(pt, slot, clk) ==
    TimeNs(clk[0], 0) - TimeNs(pt[slot].waitSec, 0) >= LatNs(pt[slot].waitIsWrite)

\* if (currTimeNs - faultNs >= latNs), for the slot at the head of the queue.
ServiceDue(pt, slot, clk) ==
    TimeNs(clk[0], clk[1]) - TimeNs(pt[slot].waitSec, pt[slot].waitNano)
        >= LatNs(pt[slot].waitIsWrite)

\* ServiceSlot looking at the newest waiter: waitQueue.back().
ServiceSlotBack(q) == q[Len(q)]

\* The slot the service step looks at: waitQueue.front().
ServiceSlot(q) == Head(q)

\* ServicePop without the pop.
ServicePopNothing(q) == q

\* The queue after waitQueue.pop().
ServicePop(q) == Tail(q)

\* The head of the wait queue is served once its latency has passed.
Service ==
    /\ pc = "service"
    /\ IF waitQueue # <<>> /\ ServiceDue(processTable, ServiceSlot(waitQueue), shm_ptr)
       THEN LET slot == ServiceSlot(waitQueue)
                page == processTable[slot].waitPage
                isWrite == processTable[slot].waitIsWrite
                lru == lruReplacement(processTable, frameTable, slot, shm_ptr)
                pt2 == InstallPCB(lru.pt, slot, page, lru.frame)
            IN  /\ waitQueue' = ServicePop(waitQueue)
                /\ processTable' = [pt2 EXCEPT ![slot].waiting = FALSE]
                /\ frameTable' = InstallFrame(lru.ft, lru.frame, processTable[slot].pid,
                                              page, isWrite, shm_ptr)
                /\ shm_ptr' = IF isWrite THEN addOverhead(addOverhead(shm_ptr))
                                         ELSE addOverhead(shm_ptr)
                /\ msgq' = Append(msgq, Grant(processTable[slot].pid))
       ELSE UNCHANGED <<waitQueue, processTable, frameTable, shm_ptr, msgq>>
    /\ pc' = "loop"
    /\ UNCHANGED <<running, total, totRefs, totFaults, nSpawnT, lastPrintSec,
                   lastPrintNs, options, iter, wpc, cop, creg, wreg, killed, ipc>>

----------------------------------------------------------------------------
\* A worker (src/worker.cpp). Its lifetime test and its draw of when to act read
\* the clock and rand(); both are taken as inputs, so a worker at the top of its
\* loop may send a request or terminate at any time. Here a worker's addTime runs
\* in one piece with the send or receive before it; SpecClock below takes the
\* clock operations apart into their loads and stores.

\* msgsnd of a request for a random address, read or write; then addTime.
WorkerSend(w) ==
    /\ wpc[w] = "loop"
    /\ \E address \in Addresses, isWrite \in BOOLEAN :
          msgq' = Append(msgq, Request(w, address, isWrite))
    /\ shm_ptr' = addTime(shm_ptr)
    /\ wpc' = [wpc EXCEPT ![w] = "wait"]
    /\ UNCHANGED <<processTable, frameTable, waitQueue, running, total, totRefs,
                   totFaults, nSpawnT, lastPrintSec, lastPrintNs, options, pc, iter,
                   cop, creg, wreg, killed, ipc>>

\* msgrcv(..., getpid(), 0) blocks until a message of the worker's type is there;
\* then addTime.
WorkerRecv(w) ==
    /\ wpc[w] = "wait"
    /\ HasMsg(msgq, w)
    /\ msgq' = RemoveAt(msgq, FirstMsgAt(msgq, w))
    /\ shm_ptr' = addTime(shm_ptr)
    /\ wpc' = [wpc EXCEPT ![w] = "loop"]
    /\ UNCHANGED <<processTable, frameTable, waitQueue, running, total, totRefs,
                   totFaults, nSpawnT, lastPrintSec, lastPrintNs, options, pc, iter,
                   cop, creg, wreg, killed, ipc>>

\* The termination check passes: shmdt and exit(0).
WorkerExit(w) ==
    /\ wpc[w] = "loop"
    /\ wpc' = [wpc EXCEPT ![w] = "exited"]
    /\ UNCHANGED <<shm_ptr, processTable, frameTable, waitQueue, running, total,
                   totRefs, totFaults, nSpawnT, lastPrintSec, lastPrintNs, options,
                   msgq, pc, iter, cop, creg, wreg, killed, ipc>>

WorkerStep(w) ==
    \/ WorkerSend(w)
    \/ WorkerRecv(w)
    \/ WorkerExit(w)

CoordinatorStep ==
    \/ LoopTick
    \/ LoopExit
    \/ \E pid \in Pids : Reap(pid)
    \/ ReapDone
    \/ Admit
    \/ Receive
    \/ Service

Next ==
    \/ CoordinatorStep
    \/ \E w \in Pids : WorkerStep(w)

Spec == Init /\ [][Next]_vars

\* Spec with the scheduling the processes get. The coordinator's loop never
\* blocks (waitpid with WNOHANG, msgrcv with IPC_NOWAIT), so it always takes its
\* next step; a worker blocked in msgrcv returns once its reply is in the queue;
\* and a worker that keeps coming back to its termination check passes it in
\* the end (the check draws rand() % 100 < 40 anew each time).
SpecLive ==
    /\ Init
    /\ [][Next]_vars
    /\ WF_vars(CoordinatorStep)
    /\ \A w \in Pids : WF_vars(WorkerRecv(w)) /\ SF_vars(WorkerExit(w))

----------------------------------------------------------------------------
\* SpecClock: the clock operations taken apart into their loads and stores of
\* the two shared words, the coordinator's (incrementClock, addOverhead, the
\* hit's 100 ns) interleaved with the workers' addTime. The region is plain
\* shared memory and nothing orders the accesses of the processes.

\* Nanosecond words a run reaches between operations: the start of a second and
\* the values an operation carries from.
NanoStarts ==
    {0, NS_PER_SEC - TICK_NS, NS_PER_SEC - OVERHEAD_NS, NS_PER_SEC - HIT_NS}

\* What each operation adds.
Amount(op) ==
    CASE op = "incrementClock" -> TICK_NS
      [] op = "addOverhead" -> OVERHEAD_NS
      [] op = "hit" -> HIT_NS
      [] op = "addTime" -> WORKER_ADD_NS

\* The test that decides the carry: >= in the coordinator, > in the worker.
Carries(op, n) == IF op = "addTime" THEN n > NS_PER_SEC ELSE n >= NS_PER_SEC

\* One load or store of an operation: `st` is where the operation stands, `reg`
\* the register of the process, `clk` the shared words.
\*   shm_ptr[1] += amount;  if (shm_ptr[1] >= 1e9) { shm_ptr[1] -= 1e9; shm_ptr[0]++; }
OpStep(st, reg, clk) ==
    CASE st.at = "add_st" ->
            [st |-> [st EXCEPT !.at = "test"], reg |-> reg,
             clk |-> Clock(clk[0], reg + Amount(st.op))]
      [] st.at = "test" ->
            [st |-> IF Carries(st.op, clk[1]) THEN [st EXCEPT !.at = "sub_ld"] ELSE Idle,
             reg |-> reg, clk |-> clk]
      [] st.at = "sub_ld" ->
            [st |-> [st EXCEPT !.at = "sub_st"], reg |-> clk[1], clk |-> clk]
      [] st.at = "sub_st" ->
            [st |-> [st EXCEPT !.at = "inc_ld"], reg |-> reg,
             clk |-> Clock(clk[0], reg - NS_PER_SEC)]
      [] st.at = "inc_ld" ->
            [st |-> [st EXCEPT !.at = "inc_st"], reg |-> clk[0], clk |-> clk]
      [] st.at = "inc_st" ->
            [st |-> Idle, reg |-> reg, clk |-> Clock(reg + 1, clk[1])]

\* The first load of an operation.
OpBegin(op, clk) == [st |-> [op |-> op, at |-> "add_st"], reg |-> clk[1]]

CoordinatorOps == {"incrementClock", "addOverhead", "hit"}

InitClock ==
    /\ shm_ptr \in { Clock(0, n) : n \in NanoStarts }
    /\ processTable = [i \in Slots |-> EmptyPCB]
    /\ frameTable = [j \in Frames |-> EmptyFrame]
    /\ waitQueue = <<>>
    /\ running = 0
    /\ total = 0
    /\ totRefs = 0
    /\ totFaults = 0
    /\ options \in OptionSets
    /\ nSpawnT = 0
    /\ lastPrintSec = 0
    /\ lastPrintNs = 0
    /\ msgq = <<>>
    /\ pc = "clock"
    /\ iter = 0
    /\ wpc = [w \in Pids |-> Idle]
    /\ cop = Idle
    /\ creg = 0
    /\ wreg = [w \in Pids |-> 0]
    /\ killed = {}
    /\ ipc = IpcUp

\* The coordinator starts one of its clock operations.
CoordClockBegin(op) ==
    /\ cop = Idle
    /\ iter < MaxClockOps
    /\ cop' = OpBegin(op, shm_ptr).st
    /\ creg' = OpBegin(op, shm_ptr).reg
    /\ iter' = iter + 1
    /\ UNCHANGED <<shm_ptr, processTable, frameTable, waitQueue, running, total,
                   totRefs, totFaults, nSpawnT, lastPrintSec, lastPrintNs, options,
                   msgq, pc, wpc, wreg, killed, ipc>>

\* The coordinator's next load or store.
CoordClockStep ==
    /\ cop # Idle
    /\ cop' = OpStep(cop, creg, shm_ptr).st
    /\ creg' = OpStep(cop, creg, shm_ptr).reg
    /\ shm_ptr' = OpStep(cop, creg, shm_ptr).clk
    /\ UNCHANGED <<processTable, frameTable, waitQueue, running, total, totRefs,
                   totFaults, nSpawnT, lastPrintSec, lastPrintNs, options, msgq, pc,
                   iter, wpc, wreg, killed, ipc>>

\* A worker starts addTime.
WorkerClockBegin(w) ==
    /\ wpc[w] = Idle
    /\ iter < MaxClockOps
    /\ wpc' = [wpc EXCEPT ![w] = OpBegin("addTime", shm_ptr).st]
    /\ wreg' = [wreg EXCEPT ![w] = OpBegin("addTime", shm_ptr).reg]
    /\ iter' = iter + 1
    /\ UNCHANGED <<shm_ptr, processTable, frameTable, waitQueue, running, total,
                   totRefs, totFaults, nSpawnT, lastPrintSec, lastPrintNs, options,
                   msgq, pc, cop, creg, killed, ipc>>

\* A worker's next load or store.
WorkerClockStep(w) ==
    /\ wpc[w] # Idle
    /\ wpc' = [wpc EXCEPT ![w] = OpStep(wpc[w], wreg[w], shm_ptr).st]
    /\ wreg' = [wreg EXCEPT ![w] = OpStep(wpc[w], wreg[w], shm_ptr).reg]
    /\ shm_ptr' = OpStep(wpc[w], wreg[w], shm_ptr).clk
    /\ UNCHANGED <<processTable, frameTable, waitQueue, running, total, totRefs,
                   totFaults, nSpawnT, lastPrintSec, lastPrintNs, options, msgq, pc,
                   iter, cop, creg, killed, ipc>>

NextClock ==
    \/ \E op \in CoordinatorOps : CoordClockBegin(op)
    \/ CoordClockStep
    \/ \E w \in Pids : WorkerClockBegin(w)
    \/ \E w \in Pids : WorkerClockStep(w)

SpecClock == InitClock /\ [][NextClock]_vars

----------------------------------------------------------------------------
\* SpecSpawn: the admissions over seconds of virtual time. The loop is the
\* coordinator's, one tick an iteration, with its reap and its admit; the
\* requests of the workers, which add at most a few microseconds an iteration
\* to the clock, are left out. Times that the code holds in long long are held
\* here as a pair Clock(hi, lo) standing for hi * 10^9 + lo, 0 <= lo < 10^9,
\* since they pass 2^31.

\* t + ns, for 0 <= ns < 2^31.
WideAdd(t, ns) ==
    LET lo == t[1] + (ns % NS_PER_SEC)
        hi == t[0] + (ns \div NS_PER_SEC)
    IN  IF lo >= NS_PER_SEC THEN Clock(hi + 1, lo - NS_PER_SEC) ELSE Clock(hi, lo)

\* a >= b.
WideGe(a, b) == a[0] > b[0] \/ (a[0] = b[0] /\ a[1] >= b[1])

\* t - 2^32 (2^32 = 4 * 10^9 + 294967296).
WideLess32(t) ==
    IF t[1] >= 294967296
    THEN Clock(t[0] - 4, t[1] - 294967296)
    ELSE Clock(t[0] - 5, t[1] - 294967296 + NS_PER_SEC)

\* A value t >= 0 brought into the range of int by two's complement wrapping
\* (2^31 = 2 * 10^9 + 147483648).
RECURSIVE Int32(_)
Int32(t) == IF WideGe(t, Clock(2, 147483648)) THEN Int32(WideLess32(t)) ELSE t

\* currTimeNs = (shm_ptr[0] * 1000000000) + shm_ptr[1], computed in int and then
\* widened. Past 2^31 the signed overflow is undefined: the build either wraps
\* or has widened the operands first.
IntTimeNs(clk) == { Int32(Clock(clk[0], clk[1])), Clock(clk[0], clk[1]) }

InitSpawn ==
    /\ shm_ptr = Clock(0, 0)
    /\ processTable = [i \in Slots |-> EmptyPCB]
    /\ frameTable = [j \in Frames |-> EmptyFrame]
    /\ waitQueue = <<>>
    /\ running = 0
    /\ total = 0
    /\ totRefs = 0
    /\ totFaults = 0
    /\ options \in SpawnOptionSets
    /\ nSpawnT = WideAdd(Clock(0, 0), options.interval)
    /\ lastPrintSec = 0
    /\ lastPrintNs = 0
    /\ msgq = <<>>
    /\ pc = "loop"
    /\ iter = 0
    /\ wpc = [w \in Pids |-> "unborn"]
    /\ cop = Idle
    /\ creg = 0
    /\ wreg = [w \in Pids |-> 0]
    /\ killed = {}
    /\ ipc = IpcUp

\* The loop test passes; incrementClock.
SpawnTick ==
    /\ pc = "loop"
    /\ LoopCond
    /\ shm_ptr[0] < MaxSpawnSec
    /\ shm_ptr' = incrementClock(shm_ptr)
    /\ pc' = "reap"
    /\ UNCHANGED <<processTable, frameTable, waitQueue, running, total, totRefs,
                   totFaults, nSpawnT, lastPrintSec, lastPrintNs, options, msgq,
                   iter, wpc, cop, creg, wreg, killed, ipc>>

\* The loop test fails.
SpawnExit ==
    /\ pc = "loop"
    /\ ~LoopCond
    /\ pc' = "done"
    /\ UNCHANGED <<shm_ptr, processTable, frameTable, waitQueue, running, total,
                   totRefs, totFaults, nSpawnT, lastPrintSec, lastPrintNs, options,
                   msgq, iter, wpc, cop, creg, wreg, killed, ipc>>

\* The worker of slot i has lived LIFE_NS, has passed its termination check and
\* exited, and waitpid returns its pid.
SpawnReap(i) ==
    /\ pc = "reap"
    /\ processTable[i].occupied = 1
    /\ WideGe(shm_ptr,
              WideAdd(Clock(processTable[i].startSeconds, processTable[i].startNano),
                      LIFE_NS))
    /\ processTable' = ReapPCB(processTable, i)
    /\ frameTable' = ReapFrames(frameTable, processTable[i].pid)
    /\ running' = running - 1
    /\ UNCHANGED <<shm_ptr, waitQueue, total, totRefs, totFaults, nSpawnT,
                   lastPrintSec, lastPrintNs, options, msgq, pc, iter, wpc, cop,
                   creg, wreg, killed, ipc>>

\* if (currTimeNs >= nSpawnT && total < options.proc && running < options.simul)
SpawnDue ==
    /\ WideGe(shm_ptr, nSpawnT)
    /\ total < options.proc
    /\ running < options.simul

\* waitpid returns 0; then the admit, with the next spawn time computed in int.
SpawnAdmit ==
    /\ pc = "reap"
    /\ IF SpawnDue
       THEN LET childPid == ForkPid(total)
                clk == incrementClock(shm_ptr)
            IN  /\ total' = total + 1
                /\ running' = running + 1
                /\ shm_ptr' = clk
                /\ processTable' = AdmitPCB(processTable, childPid, clk)
                /\ \E t \in IntTimeNs(clk) : nSpawnT' = WideAdd(t, options.interval)
       ELSE UNCHANGED <<total, running, shm_ptr, processTable, nSpawnT>>
    /\ pc' = "loop"
    /\ UNCHANGED <<frameTable, waitQueue, totRefs, totFaults, lastPrintSec,
                   lastPrintNs, options, msgq, iter, wpc, cop, creg, wreg, killed,
                   ipc>>

NextSpawn ==
    \/ SpawnTick
    \/ SpawnExit
    \/ \E i \in Slots : SpawnReap(i)
    \/ SpawnAdmit

SpecSpawn == InitSpawn /\ [][NextSpawn]_vars

----------------------------------------------------------------------------
\* SpecExit: the ways the coordinator ends. The loop is Spec's, with the admit
\* in two steps (fork, then the bookkeeping of the parent), followed by the
\* final cleanup call by call; the watchdog's SIGALRM may arrive between any
\* two steps and runs signal_handler, which does not return; and a process
\* other than the workers may put a request on the queue (PERMS 0644 lets every
\* process of the owner send), its address beyond the 32 pages. The run is
\* followed up to the coordinator's exit.

\* The coordinator has not exited.
Alive == pc \notin {"exit1", "alarm", "returned"}

\* The pid of a process that is not a worker.
ForeignPid == ForkPid(MaxProcOpt)

\* The addresses a foreign request carries: the first of page 32.
BadAddresses == { PAGE_TABLE_LEN * PAGE_SIZE }

\* fork(): the child runs from here on; the parent has not yet counted it.
AdmitFork ==
    /\ pc = "admit"
    /\ IF CanSpawn
       THEN /\ wpc' = [wpc EXCEPT ![ForkPid(total)] = "loop"]
            /\ pc' = "forked"
       ELSE /\ pc' = "recv"
            /\ UNCHANGED wpc
    /\ UNCHANGED <<shm_ptr, processTable, frameTable, waitQueue, running, total,
                   totRefs, totFaults, nSpawnT, lastPrintSec, lastPrintNs, options,
                   msgq, iter, cop, creg, wreg, killed, ipc>>

\* The parent after fork(): total++, running++, incrementClock, the PCB entry,
\* the next spawn time.
AdmitRegister ==
    /\ pc = "forked"
    /\ LET clk == incrementClock(shm_ptr)
       IN  /\ total' = total + 1
           /\ running' = running + 1
           /\ shm_ptr' = clk
           /\ processTable' = AdmitPCB(processTable, ForkPid(total), clk)
           /\ nSpawnT' = TimeNs(clk[0], clk[1]) + options.interval
    /\ pc' = "recv"
    /\ UNCHANGED <<frameTable, waitQueue, totRefs, totFaults, lastPrintSec,
                   lastPrintNs, options, msgq, iter, wpc, cop, creg, wreg, killed,
                   ipc>>

\* A foreign process sends a request with an address out of range.
ForeignSend ==
    /\ Alive
    /\ \A k \in 1 .. Len(msgq) : msgq[k].pid # ForeignPid
    /\ \E address \in BadAddresses, isWrite \in BOOLEAN :
          msgq' = Append(msgq, Request(ForeignPid, address, isWrite))
    /\ UNCHANGED <<shm_ptr, processTable, frameTable, waitQueue, running, total,
                   totRefs, totFaults, nSpawnT, lastPrintSec, lastPrintNs, options,
                   pc, iter, wpc, cop, creg, wreg, killed, ipc>>

\* The pids signal_handler sends SIGKILL: those of the occupied slots.
HandlerKills(pt) == { pt[i].pid : i \in { k \in Slots : pt[k].occupied = 1 /\ pt[k].pid > 0 } }

\* signal_handler's release: shmdt, shmctl(IPC_RMID), msgctl(IPC_RMID), with
\* exit(1) at the first call that fails (the region already detached, the
\* region or the queue already removed).
HandlerRelease(r) ==
    IF ~r.attached THEN r
    ELSE IF r.shmRemoved > 0 THEN [r EXCEPT !.attached = FALSE]
    ELSE IF r.msqRemoved > 0
         THEN [r EXCEPT !.attached = FALSE, !.shmRemoved = 1]
         ELSE [r EXCEPT !.attached = FALSE, !.shmRemoved = 1, !.msqRemoved = 1]

\* SIGALRM: signal_handler runs on the coordinator's thread and exits.
signal_handler ==
    /\ Alive
    /\ killed' = killed \cup HandlerKills(processTable)
    /\ wpc' = [w \in Pids |->
                  IF w \in HandlerKills(processTable) /\ wpc[w] \in {"loop", "wait"}
                  THEN "killed" ELSE wpc[w]]
    /\ ipc' = HandlerRelease(ipc)
    /\ pc' = "alarm"
    /\ UNCHANGED <<shm_ptr, processTable, frameTable, waitQueue, running, total,
                   totRefs, totFaults, nSpawnT, lastPrintSec, lastPrintNs, options,
                   msgq, iter, cop, creg, wreg>>

\* The final cleanup: shmdt(shm_ptr).
CleanupDetach ==
    /\ pc = "done"
    /\ IF ipc.attached
       THEN ipc' = [ipc EXCEPT !.attached = FALSE] /\ pc' = "detached"
       ELSE UNCHANGED ipc /\ pc' = "exit1"
    /\ UNCHANGED <<shm_ptr, processTable, frameTable, waitQueue, running, total,
                   totRefs, totFaults, nSpawnT, lastPrintSec, lastPrintNs, options,
                   msgq, iter, wpc, cop, creg, wreg, killed>>

\* The final cleanup: shmctl(shm_id, IPC_RMID, NULL).
CleanupRemoveShm ==
    /\ pc = "detached"
    /\ IF ipc.shmRemoved = 0
       THEN ipc' = [ipc EXCEPT !.shmRemoved = 1] /\ pc' = "shm_removed"
       ELSE UNCHANGED ipc /\ pc' = "exit1"
    /\ UNCHANGED <<shm_ptr, processTable, frameTable, waitQueue, running, total,
                   totRefs, totFaults, nSpawnT, lastPrintSec, lastPrintNs, options,
                   msgq, iter, wpc, cop, creg, wreg, killed>>

\* The final cleanup: msgctl(msqid, IPC_RMID, NULL), then return 0.
CleanupRemoveQueue ==
    /\ pc = "shm_removed"
    /\ IF ipc.msqRemoved = 0
       THEN ipc' = [ipc EXCEPT !.msqRemoved = 1] /\ pc' = "returned"
       ELSE UNCHANGED ipc /\ pc' = "exit1"
    /\ UNCHANGED <<shm_ptr, processTable, frameTable, waitQueue, running, total,
                   totRefs, totFaults, nSpawnT, lastPrintSec, lastPrintNs, options,
                   msgq, iter, wpc, cop, creg, wreg, killed>>

NextExit ==
    \/ (iter < MaxExitIter /\ LoopTick)
    \/ LoopExit
    \/ \E pid \in Pids : Reap(pid)
    \/ ReapDone
    \/ AdmitFork
    \/ AdmitRegister
    \/ Receive
    \/ Service
    \/ (Alive /\ \E w \in Pids : WorkerStep(w))
    \/ ForeignSend
    \/ signal_handler
    \/ CleanupDetach
    \/ CleanupRemoveShm
    \/ CleanupRemoveQueue

SpecExit == Init /\ [][NextExit]_vars

----------------------------------------------------------------------------
\* SpecRace: Spec with the workers' addTime in two steps, the load of the
\* nanoseconds word and the store of the sum, so that the coordinator's steps
\* fall between them; the coordinator's own clock updates stay in one piece.

\* msgsnd of a request; then addTime's load of shm_ptr[1].
RaceSend(w) ==
    /\ wpc[w] = "loop"
    /\ \E address \in Addresses, isWrite \in BOOLEAN :
          msgq' = Append(msgq, Request(w, address, isWrite))
    /\ wreg' = [wreg EXCEPT ![w] = shm_ptr[1]]
    /\ wpc' = [wpc EXCEPT ![w] = "send_store"]
    /\ UNCHANGED <<shm_ptr, processTable, frameTable, waitQueue, running, total,
                   totRefs, totFaults, nSpawnT, lastPrintSec, lastPrintNs, options,
                   pc, iter, cop, creg, killed, ipc>>

\* msgrcv of the worker's reply; then addTime's load of shm_ptr[1].
RaceRecv(w) ==
    /\ wpc[w] = "wait"
    /\ HasMsg(msgq, w)
    /\ msgq' = RemoveAt(msgq, FirstMsgAt(msgq, w))
    /\ wreg' = [wreg EXCEPT ![w] = shm_ptr[1]]
    /\ wpc' = [wpc EXCEPT ![w] = "recv_store"]
    /\ UNCHANGED <<shm_ptr, processTable, frameTable, waitQueue, running, total,
                   totRefs, totFaults, nSpawnT, lastPrintSec, lastPrintNs, options,
                   pc, iter, cop, creg, killed, ipc>>

\* addTime's store of the sum, and its carry.
RaceStore(w) ==
    /\ wpc[w] \in {"send_store", "recv_store"}
    /\ shm_ptr' = addTime(Clock(shm_ptr[0], wreg[w]))
    /\ wpc' = [wpc EXCEPT ![w] = IF wpc[w] = "send_store" THEN "wait" ELSE "loop"]
    /\ UNCHANGED <<processTable, frameTable, waitQueue, running, total, totRefs,
                   totFaults, nSpawnT, lastPrintSec, lastPrintNs, options, msgq, pc,
                   iter, cop, creg, wreg, killed, ipc>>

NextRace ==
    \/ (iter < MaxRaceIter /\ LoopTick)
    \/ LoopExit
    \/ \E pid \in Pids : Reap(pid)
    \/ ReapDone
    \/ Admit
    \/ Receive
    \/ Service
    \/ \E w \in Pids : RaceSend(w)
    \/ \E w \in Pids : RaceRecv(w)
    \/ \E w \in Pids : RaceStore(w)
    \/ \E w \in Pids : WorkerExit(w)

SpecRace == Init /\ [][NextRace]_vars

----------------------------------------------------------------------------
\* SpecRaceHit: SpecRace carried one iteration further, to where a worker has
\* hits in successive iterations, with two workers side by side (-n 2 -s 2)
\* that read address 0.

\* The command line of SpecRaceHit.
RaceHitOptionSets == { [proc |-> 2, simul |-> 2, interval |-> 0] }

\* The address the workers draw here.
RaceHitAddresses == {0}

InitRaceHit ==
    /\ shm_ptr = Clock(0, 0)
    /\ processTable = [i \in Slots |-> EmptyPCB]
    /\ frameTable = [j \in Frames |-> EmptyFrame]
    /\ waitQueue = <<>>
    /\ running = 0
    /\ total = 0
    /\ totRefs = 0
    /\ totFaults = 0
    /\ options \in RaceHitOptionSets
    /\ nSpawnT = TimeNs(0, 0) + options.interval
    /\ lastPrintSec = 0
    /\ lastPrintNs = 0
    /\ msgq = <<>>
    /\ pc = "loop"
    /\ iter = 0
    /\ wpc = [w \in Pids |-> "unborn"]
    /\ cop = Idle
    /\ creg = 0
    /\ wreg = [w \in Pids |-> 0]
    /\ killed = {}
    /\ ipc = IpcUp

\* The loop test passes: incrementClock().
RaceHitTick ==
    /\ pc = "loop"
    /\ LoopCond
    /\ iter < MaxRaceHitIter
    /\ shm_ptr' = incrementClock(shm_ptr)
    /\ iter' = iter + 1
    /\ pc' = "reap"
    /\ UNCHANGED <<processTable, frameTable, waitQueue, running, total, totRefs,
                   totFaults, nSpawnT, lastPrintSec, lastPrintNs, options, msgq,
                   wpc, cop, creg, wreg, killed, ipc>>

\* msgsnd of a read request; then addTime's load of shm_ptr[1].
RaceHitSend(w) ==
    /\ wpc[w] = "loop"
    /\ \E address \in RaceHitAddresses :
          msgq' = Append(msgq, Request(w, address, FALSE))
    /\ wreg' = [wreg EXCEPT ![w] = shm_ptr[1]]
    /\ wpc' = [wpc EXCEPT ![w] = "send_store"]
    /\ UNCHANGED <<shm_ptr, processTable, frameTable, waitQueue, running, total,
                   totRefs, totFaults, nSpawnT, lastPrintSec, lastPrintNs, options,
                   pc, iter, cop, creg, killed, ipc>>

NextRaceHit ==
    \/ RaceHitTick
    \/ LoopExit
    \/ \E pid \in Pids : Reap(pid)
    \/ ReapDone
    \/ Admit
    \/ Receive
    \/ Service
    \/ \E w \in Pids : RaceHitSend(w)
    \/ \E w \in Pids : RaceRecv(w)
    \/ \E w \in Pids : RaceStore(w)
    \/ \E w \in Pids : WorkerExit(w)

SpecRaceHit == InitRaceHit /\ [][NextRaceHit]_vars

----------------------------------------------------------------------------
\* SpecReuse: two workers one after the other (-n 2 -s 1), the second in the
\* slot the first has left, over enough iterations and pages for the second to
\* fill the frames and fault again.

\* The command line of SpecReuse.
ReuseOptionSets == { [proc |-> 2, simul |-> 1, interval |-> 0] }

\* The addresses the workers draw here: the first of pages 0 to 3.
ReuseAddresses == {0, 1024, 2048, 3072}

InitReuse ==
    /\ shm_ptr = Clock(0, 0)
    /\ processTable = [i \in Slots |-> EmptyPCB]
    /\ frameTable = [j \in Frames |-> EmptyFrame]
    /\ waitQueue = <<>>
    /\ running = 0
    /\ total = 0
    /\ totRefs = 0
    /\ totFaults = 0
    /\ options \in ReuseOptionSets
    /\ nSpawnT = TimeNs(0, 0) + options.interval
    /\ lastPrintSec = 0
    /\ lastPrintNs = 0
    /\ msgq = <<>>
    /\ pc = "loop"
    /\ iter = 0
    /\ wpc = [w \in Pids |-> "unborn"]
    /\ cop = Idle
    /\ creg = 0
    /\ wreg = [w \in Pids |-> 0]
    /\ killed = {}
    /\ ipc = IpcUp

\* The loop test passes: incrementClock().
ReuseTick ==
    /\ pc = "loop"
    /\ LoopCond
    /\ iter < MaxReuseIter
    /\ shm_ptr' = incrementClock(shm_ptr)
    /\ iter' = iter + 1
    /\ pc' = "reap"
    /\ UNCHANGED <<processTable, frameTable, waitQueue, running, total, totRefs,
                   totFaults, nSpawnT, lastPrintSec, lastPrintNs, options, msgq,
                   wpc, cop, creg, wreg, killed, ipc>>

\* msgsnd of a read request for a random address; then addTime.
ReuseSend(w) ==
    /\ wpc[w] = "loop"
    /\ \E address \in ReuseAddresses :
          msgq' = Append(msgq, Request(w, address, FALSE))
    /\ shm_ptr' = addTime(shm_ptr)
    /\ wpc' = [wpc EXCEPT ![w] = "wait"]
    /\ UNCHANGED <<processTable, frameTable, waitQueue, running, total, totRefs,
                   totFaults, nSpawnT, lastPrintSec, lastPrintNs, options, pc, iter,
                   cop, creg, wreg, killed, ipc>>

NextReuse ==
    \/ ReuseTick
    \/ LoopExit
    \/ \E pid \in Pids : Reap(pid)
    \/ ReapDone
    \/ Admit
    \/ Receive
    \/ Service
    \/ \E w \in Pids : ReuseSend(w)
    \/ \E w \in Pids : WorkerRecv(w)
    \/ \E w \in Pids : WorkerExit(w)

SpecReuse == InitReuse /\ [][NextReuse]_vars

----------------------------------------------------------------------------
\* Properties of the tables.

\* Between two loop iterations: the coordinator is at its loop test.
AtLoopTop == pc = "loop"

\* The occupied slots whose pid owns frame j and whose page table maps the
\* frame's page to j.
Referers(j) ==
    { i \in Slots :
        /\ processTable[i].occupied = 1
        /\ processTable[i].pid = frameTable[j].ownerPid
        /\ frameTable[j].pageNum \in Pages
        /\ processTable[i].pageTable[frameTable[j].pageNum] = j }

\* How often slot i stands in the wait queue.
TimesQueued(i) == Cardinality({ k \in 1 .. Len(waitQueue) : waitQueue[k] = i })

\* C1: between loop iterations every page-table entry j >= 0 of every PCB slot,
\* reused or not, names an occupied frame owned by the slot's pid and holding
\* that page.
C1_PageTableEntriesBacked ==
    AtLoopTop =>
        \A i \in Slots, p \in Pages :
            LET j == processTable[i].pageTable[p]
            IN  j >= 0 =>
                    /\ frameTable[j].occupied
                    /\ frameTable[j].ownerPid = processTable[i].pid
                    /\ frameTable[j].pageNum = p

\* C2: between loop iterations a frame is occupied exactly when exactly one
\* occupied PCB slot has the frame's owner pid and maps the frame's page to it.
C2_FrameOccupiedIffOneReferer ==
    AtLoopTop =>
        \A j \in Frames : frameTable[j].occupied <=> Cardinality(Referers(j)) = 1

\* C2's case: a worker that owned a frame was reaped while another worker owns
\* a frame: a frame is occupied, and a free frame is still named by the page
\* table the reaped worker left in its slot.
C2_Witness ==
    /\ AtLoopTop
    /\ \E j \in Frames : frameTable[j].occupied
    /\ \E j \in Frames, i \in Slots, p \in Pages :
          /\ ~frameTable[j].occupied
          /\ processTable[i].pageTable[p] = j

\* C3: between loop iterations a slot is waiting exactly when it stands in the
\* wait queue, and no slot stands in it twice.
C3_WaitingIffQueuedOnce ==
    AtLoopTop =>
        \A i \in Slots :
            /\ TimesQueued(i) <= 1
            /\ processTable[i].waiting <=> TimesQueued(i) = 1

\* C3's case: a fault was recorded, another was served, and a worker was reaped.
C3_Witness ==
    /\ AtLoopTop
    /\ Len(waitQueue) = 1
    /\ \E j \in Frames : frameTable[j].occupied
    /\ \E w \in Pids : wpc[w] = "reaped"

\* The reap of pid, as a step: what it must leave.
ReapLeaves(pid) ==
    /\ \A j \in Frames :
          frameTable[j].ownerPid = pid =>
              /\ ~frameTable'[j].occupied
              /\ frameTable'[j].ownerPid = -1
    /\ \A j \in Frames : frameTable'[j].ownerPid # pid
    /\ \A i \in Slots : ~(processTable'[i].occupied = 1 /\ processTable'[i].pid = pid)
    /\ running' = running - 1
    /\ pc' = "reap"

\* Nothing of a reaped worker is left in the tables.
NoRemnant(pid) ==
    /\ \A j \in Frames : frameTable[j].ownerPid # pid
    /\ \A i \in Slots : ~(processTable[i].occupied = 1 /\ processTable[i].pid = pid)

\* C4: the reap of a terminated worker frees every frame the worker owned, leaves
\* no frame with its pid, empties its slot and takes one off the running count,
\* all before the receive step of the iteration; and it stays so.
C4_ReapClears ==
    /\ [][\A pid \in Pids :
            (wpc[pid] = "exited" /\ wpc'[pid] = "reaped") => ReapLeaves(pid)]_vars
    /\ [](\A pid \in Pids : wpc[pid] = "reaped" => NoRemnant(pid))

\* C4's case: a worker that owned a frame has been reaped and the coordinator
\* has not yet come to its receive step.
C4_Witness ==
    /\ pc \in {"reap", "admit"}
    /\ \E i \in Slots, p \in Pages, j \in Frames :
          /\ processTable[i].occupied = 0
          /\ processTable[i].pid \in Pids
          /\ wpc[processTable[i].pid] = "reaped"
          /\ processTable[i].pageTable[p] = j
          /\ ~frameTable[j].occupied

\* C5: every unoccupied slot has all 32 page-table entries at -1 and is not waiting.
C5_ReleasedSlotIsClean ==
    \A i \in Slots :
        processTable[i].occupied = 0 =>
            /\ \A p \in Pages : processTable[i].pageTable[p] = -1
            /\ ~processTable[i].waiting

----------------------------------------------------------------------------
\* Properties of the clock.

\* The clock of the next state minus the clock of this one, in ns.
ClockAdvance ==
    (shm_ptr'[0] - shm_ptr[0]) * NS_PER_SEC + (shm_ptr'[1] - shm_ptr[1])

\* C6: the clock value secs * 10^9 + nanos in the shared region never decreases
\* from one observation to the next, whatever the interleaving of the
\* coordinator's clock updates and the workers' steps.
C6_ClockNeverDecreases == [][ClockAdvance >= 0]_vars

\* C7: no step of a worker changes the seconds or the nanoseconds word of the
\* shared clock.
C7_WorkersLeaveClock ==
    [][(\E w \in Pids : WorkerStep(w)) => shm_ptr' = shm_ptr]_vars

\* C8: once the clock operations have completed, in the coordinator and in the
\* workers, the nanoseconds word is at least 0 and below 1 000 000 000.
C8_NanosNormalized ==
    (cop = Idle /\ \A w \in Pids : wpc[w] = Idle) =>
        (0 <= shm_ptr[1] /\ shm_ptr[1] < NS_PER_SEC)

----------------------------------------------------------------------------
\* Properties of the fault service.

\* Slot i is served in this step: it was waiting and is now not, still occupied,
\* and a reply to its pid has been put on the queue.
Served(i) ==
    /\ processTable[i].waiting
    /\ ~processTable'[i].waiting
    /\ processTable'[i].occupied = 1
    /\ Len(msgq') = Len(msgq) + 1
    /\ msgq'[Len(msgq')] = Grant(processTable[i].pid)

\* The time slot i has waited, on the clock as it stands.
Waited(i) ==
    TimeNs(shm_ptr[0], shm_ptr[1])
        - TimeNs(processTable[i].waitSec, processTable[i].waitNano)

\* C9: whenever a fault is served, the clock read at the service minus the
\* slot's recorded wait time is at least 14 ms for a read and 15 ms for a write.
C9_ServedAfterLatency ==
    [][\A i \in Slots :
          Served(i) =>
              IF processTable[i].waitIsWrite
              THEN Waited(i) >= FAULT_LAT_NS + WRITE_LAT_NS
              ELSE Waited(i) >= FAULT_LAT_NS]_vars

\* C9's case: a write fault has been served: the frame of the page the slot
\* waited for was loaded dirty at least 15 ms after the fault was recorded.
C9_Witness ==
    \E i \in Slots, j \in Frames :
        /\ processTable[i].occupied = 1
        /\ ~processTable[i].waiting
        /\ processTable[i].waitIsWrite
        /\ processTable[i].waitPage \in Pages
        /\ processTable[i].pageTable[processTable[i].waitPage] = j
        /\ frameTable[j].occupied
        /\ frameTable[j].ownerPid = processTable[i].pid
        /\ TimeNs(frameTable[j].lastRefSec, frameTable[j].lastRefNano)
              - TimeNs(processTable[i].waitSec, processTable[i].waitNano)
              >= FAULT_LAT_NS + WRITE_LAT_NS

\* C10: faults are served in the order they were recorded: a step serves no slot
\* that stands behind another in the wait queue, and the queue changes only by
\* losing its head or by gaining a slot at its end.
C10_ServedInFaultOrder ==
    [][/\ \A k \in 2 .. Len(waitQueue) : ~Served(waitQueue[k])
       /\ \/ waitQueue' = waitQueue
          \/ waitQueue # <<>> /\ waitQueue' = Tail(waitQueue)
          \/ \E i \in Slots : waitQueue' = Append(waitQueue, i)]_vars

\* C10's case: two slots have faulted; the one that faulted first has been served
\* and the later one still waits.
C10_Witness ==
    \E a \in Slots, b \in Slots :
        /\ a # b
        /\ waitQueue = <<b>>
        /\ processTable[b].waiting
        /\ processTable[a].occupied = 1
        /\ ~processTable[a].waiting
        /\ processTable[a].waitPage \in Pages
        /\ processTable[a].pageTable[processTable[a].waitPage] >= 0
        /\ TimeNs(processTable[a].waitSec, processTable[a].waitNano)
              < TimeNs(processTable[b].waitSec, processTable[b].waitNano)

----------------------------------------------------------------------------
\* Properties of the admissions.

\* C11: two admissions one after the other are at least the spawn interval
\* apart: the clock at the later one is at least the start time recorded at the
\* earlier one plus the interval, also once seconds * 10^9 has passed 2^31.
C11_SpawnSpacing ==
    [][(total' = total + 1 /\ total > 0) =>
          \E i \in Slots :
              /\ processTable[i].pid = ForkPid(total - 1)
              /\ WideGe(shm_ptr',
                        WideAdd(Clock(processTable[i].startSeconds,
                                      processTable[i].startNano),
                                options.interval))]_vars

\* The occupied PCB slots.
OccupiedSlots == { i \in Slots : processTable[i].occupied = 1 }

\* C12: the running workers are at most simul, the workers admitted at most the
\* quota, the occupied slots as many as the running count; the total grows by
\* one at a time, in the admit step only, and the admit step is reached once an
\* iteration (from the reap, which is entered by the loop's tick).
C12_AdmissionLimits ==
    /\ [](/\ running <= options.simul
          /\ total <= options.proc
          /\ Cardinality(OccupiedSlots) = running)
    /\ [][/\ total' # total => (total' = total + 1 /\ pc = "admit" /\ pc' = "recv")
          /\ (pc' = "admit" /\ pc # "admit") => pc = "reap"
          /\ (pc' = "reap" /\ pc # "reap") => (pc = "loop" /\ iter' = iter + 1)]_vars

\* C12's case: the quota is used up and as many workers run as may, a worker
\* having been reaped before.
C12_Witness ==
    /\ total = options.proc
    /\ running = options.simul
    /\ \E w \in Pids : wpc[w] = "reaped"

----------------------------------------------------------------------------
\* Properties of the message exchange.

\* The requests of worker w that are in the queue.
RequestsInFlight(w) ==
    Cardinality({ k \in 1 .. Len(msgq) : msgq[k].mtype = 1 /\ msgq[k].pid = w })

\* The faults of worker w that the coordinator has accepted and not yet served.
FaultsPending(w) ==
    Cardinality({ i \in Slots : /\ processTable[i].occupied = 1
                                /\ processTable[i].pid = w
                                /\ processTable[i].waiting })

\* The replies to worker w that are in the queue.
RepliesInFlight(w) ==
    Cardinality({ k \in 1 .. Len(msgq) : msgq[k].mtype = w })

\* C13: requests and replies of a worker alternate. A worker that has sent and
\* not yet received has exactly one of: its request in the queue, its fault
\* pending, its granted reply in the queue; a worker that has not has none of
\* them, so no reply is addressed to a worker with nothing outstanding.
C13_RequestReplyAlternate ==
    \A w \in Pids :
        /\ RequestsInFlight(w) + FaultsPending(w) + RepliesInFlight(w)
              = (IF wpc[w] = "wait" THEN 1 ELSE 0)
        /\ \A k \in 1 .. Len(msgq) : msgq[k].mtype = w => msgq[k].granted

\* C13's case: one worker's fault is pending while the reply to another is in
\* the queue.
C13_Witness ==
    \E v \in Pids, w \in Pids :
        /\ v # w
        /\ FaultsPending(v) = 1
        /\ RepliesInFlight(w) = 1
        /\ totRefs >= 3

----------------------------------------------------------------------------
\* Properties of the counters.

\* The requests in the queue.
RequestsQueued == Cardinality({ k \in 1 .. Len(msgq) : msgq[k].mtype = 1 })

\* C20: totFaults <= totRefs always; a step that takes a request off the queue
\* adds exactly one to totRefs and no other step changes it; totFaults grows by
\* exactly one, and only in a step that accepts a request and records it as a
\* fault (the slot joins the wait queue).
C20_FaultsWithinRefs ==
    /\ [](totFaults <= totRefs)
    /\ [][/\ (totRefs' # totRefs \/ RequestsQueued' < RequestsQueued) =>
                (totRefs' = totRefs + 1 /\ RequestsQueued' = RequestsQueued - 1)
          /\ (totFaults' # totFaults \/ Len(waitQueue') > Len(waitQueue)) =>
                /\ totFaults' = totFaults + 1
                /\ totRefs' = totRefs + 1
                /\ \E i \in Slots :
                      /\ waitQueue' = Append(waitQueue, i)
                      /\ ~processTable[i].waiting
                      /\ processTable'[i].waiting]_vars

\* C20's case: requests have been counted of which some were hits and some
\* faults.
C20_Witness ==
    /\ totFaults >= 2
    /\ totRefs > totFaults

----------------------------------------------------------------------------
\* Properties of the coordinator's exit.

\* Both shared resources have been removed.
Released == ipc.shmRemoved >= 1 /\ ipc.msqRemoved >= 1

\* The coordinator's exit status, once it has exited: 1 from exit(1), 0 from
\* the return of main.
ExitStatus == IF pc = "returned" THEN 0 ELSE 1

\* C14: when the watchdog's handler has run, every worker forked and not yet
\* reaped has been sent SIGKILL, the clock region and the queue are released,
\* and the exit status is not zero.
C14_WatchdogKillsAndReleases ==
    pc = "alarm" =>
        /\ \A w \in Pids : wpc[w] \notin {"unborn", "reaped"} => w \in killed
        /\ Released
        /\ ExitStatus # 0

\* C15: once the loop has come to its end, the coordinator exits with the clock
\* region and the queue each removed exactly once, also when the alarm arrives
\* while the cleanup is under way.
C15_ReleasedExactlyOnce ==
    [][(pc \in {"done", "detached", "shm_removed"} /\ ~Alive') =>
          (ipc'.shmRemoved = 1 /\ ipc'.msqRemoved = 1)]_vars

\* C16: on every exit of the coordinator after the set-up (return of main,
\* watchdog, bad address, failed call) both shared resources have been released.
C16_ReleasedOnEveryExit == ~Alive => Released

\* C17: the receive of a request whose page is 32 or more ends the coordinator
\* with status 1 and leaves the frame table, the PCB table, the wait queue and
\* totFaults as they were, and puts no reply on the queue.
C17_BadAddressLeavesTables ==
    [][(/\ pc = "recv"
        /\ totRefs' # totRefs
        /\ msgq[FirstMsgAt(msgq, 1)].address \div PAGE_SIZE >= PAGE_TABLE_LEN) =>
            /\ pc' = "exit1"
            /\ ExitStatus' # 0
            /\ frameTable' = frameTable
            /\ processTable' = processTable
            /\ waitQueue' = waitQueue
            /\ totFaults' = totFaults
            /\ msgq' = RemoveAt(msgq, FirstMsgAt(msgq, 1))]_vars

\* C17's case: the coordinator has exited on a bad address while a fault was
\* pending and a frame was occupied.
C17_Witness ==
    /\ pc = "exit1"
    /\ ipc = IpcUp
    /\ waitQueue # <<>>
    /\ \E j \in Frames : frameTable[j].occupied

----------------------------------------------------------------------------
\* Properties of the loop.

\* C18: the loop goes on while admissions remain or a worker runs and ends at
\* the first loop test where neither does; once neither does the coordinator
\* comes to the end of its loop; and with workers that exit in the end the loop
\* ends (within the iterations a run may start).
C18_LoopEndsWhenDone ==
    /\ [][(pc = "loop" /\ pc' # "loop") =>
              IF total < options.proc \/ running > 0
              THEN pc' = "reap" /\ iter' = iter + 1
              ELSE pc' = "done"]_vars
    /\ (total >= options.proc /\ running = 0) ~> (pc = "done")
    /\ <>(pc = "done" \/ iter = MaxIter)

\* C18's case: the loop has ended, before the last iteration a run may start,
\* after both workers were admitted, a fault was served and both were reaped.
C18_Witness ==
    /\ pc = "done"
    /\ iter < MaxIter
    /\ total = options.proc
    /\ totFaults >= 1
    /\ \A w \in Pids : wpc[w] = "reaped"

\* The slots whose fault this step serves.
ServedNow == { i \in Slots : processTable[i].waiting /\ ~processTable'[i].waiting }

\* C19: a request is accepted in the receive step only, one at a time, and a
\* fault is served in the service step only, the one at the head of the queue;
\* either step is entered once an iteration (the receive from the admit, the
\* service from the receive). And when a request is accepted the clock is at
\* least one tick past the time of every accepted request before it: for the
\* faults still pending, the time recorded in the slot when they were accepted.
C19_OnePerIterationTickApart ==
    [][/\ totRefs' # totRefs => (totRefs' = totRefs + 1 /\ pc = "recv" /\ pc' # "recv")
       /\ ServedNow # {} => (/\ pc = "service" /\ pc' = "loop"
                          /\ ServedNow = {Head(waitQueue)}
                          /\ waitQueue' = Tail(waitQueue))
       /\ (pc' = "recv" /\ pc # "recv") => pc = "admit"
       /\ (pc' = "service" /\ pc # "service") => pc = "recv"
       /\ totRefs' # totRefs =>
             \A i \in Slots :
                processTable[i].waiting =>
                   TimeNs(shm_ptr[0], shm_ptr[1])
                       >= TimeNs(processTable[i].waitSec, processTable[i].waitNano)
                              + TICK_NS]_vars

----------------------------------------------------------------------------
\* Properties of the classification of a request.

\* The request the next msgrcv of type 1 takes.
NextRequest == msgq[FirstMsgAt(msgq, 1)]

\* The slot of the sender of that request.
RequestSlot == FindSlot(processTable, NextRequest.pid, MAX_PROC)

\* The page the request names.
RequestPage == NextRequest.address \div PAGE_SIZE

\* The receive step is about to take a request.
Accepting == pc = "recv" /\ HasMsg(msgq, 1)

\* The receive step is about to take a request that it classifies as a hit:
\* the sender's page-table entry for the page is a frame.
HitDue ==
    /\ Accepting
    /\ RequestPage < PAGE_TABLE_LEN
    /\ processTable[RequestSlot].pageTable[RequestPage] # -1

\* The receive step is about to take a request that it classifies as a fault.
FaultDue ==
    /\ Accepting
    /\ RequestPage < PAGE_TABLE_LEN
    /\ processTable[RequestSlot].pageTable[RequestPage] = -1

\* The frame a hit finds.
HitFrameIndex == processTable[RequestSlot].pageTable[RequestPage]

\* C21: the step that takes a hit adds 1000 ns and 100 ns to the clock, leaves
\* the clock's new value as the last reference time of the frame found in the
\* sender's page table, and puts the reply to the sender on the queue, where no
\* reply to it was before: a state with the reply has the time updated.
C21_HitChargesAndTouches ==
    [][(HitDue /\ pc' # "recv") =>
          /\ TimeNs(shm_ptr'[0], shm_ptr'[1])
                = TimeNs(shm_ptr[0], shm_ptr[1]) + 1000 + 100
          /\ frameTable'[HitFrameIndex].lastRefSec = shm_ptr'[0]
          /\ frameTable'[HitFrameIndex].lastRefNano = shm_ptr'[1]
          /\ RepliesInFlight(NextRequest.pid) = 0
          /\ Len(msgq') = Len(msgq)
          /\ msgq'[Len(msgq')] = Grant(NextRequest.pid)]_vars

\* C21's case: a hit has just been taken; the reply is on the queue and a frame
\* of the requester carries the clock's value.
C21_Witness ==
    /\ pc = "service"
    /\ totRefs > totFaults
    /\ \E j \in Frames :
          /\ frameTable[j].occupied
          /\ frameTable[j].lastRefSec = shm_ptr[0]
          /\ frameTable[j].lastRefNano = shm_ptr[1]
          /\ shm_ptr[1] % 1000 = 100
          /\ HasMsg(msgq, frameTable[j].ownerPid)

----------------------------------------------------------------------------
\* Properties of the replacement.

\* The frames that are free.
FreeFrames == { j \in Frames : ~frameTable[j].occupied }

\* The last reference time of frame j.
LastRef(j) == TimeNs(frameTable[j].lastRefSec, frameTable[j].lastRefNano)

\* The page-table entries that this step sets to -1.
Cleared ==
    { e \in Slots \X Pages : /\ processTable[e[1]].pageTable[e[2]] # -1
                             /\ processTable'[e[1]].pageTable[e[2]] = -1 }

\* The frame this step loads the page of the queue's head into.
LoadedFrame == processTable'[Head(waitQueue)].pageTable[processTable[Head(waitQueue)].waitPage]

\* This step serves a fault.
Serving == pc = "service" /\ ServedNow # {}

\* C22: a service step loads the page into the lowest free frame when a frame
\* is free, and then clears no page-table entry; with every frame occupied it
\* takes the frame whose last reference time is smallest, the lowest such frame
\* when several have that time.
C22_FreeFrameFirstElseOldest ==
    [][Serving =>
          IF FreeFrames # {}
          THEN /\ LoadedFrame \in FreeFrames
               /\ \A j \in FreeFrames : LoadedFrame <= j
               /\ Cleared = {}
          ELSE \A k \in Frames :
                  /\ LastRef(LoadedFrame) <= LastRef(k)
                  /\ LastRef(k) = LastRef(LoadedFrame) => LoadedFrame <= k]_vars

\* C22's case: three faults have been served into the two frames with no worker
\* reaped, so the third took a victim.
C22_Witness ==
    /\ pc = "loop"
    /\ totFaults >= FRAME_NUM + 1
    /\ FreeFrames = {}
    /\ \A i \in Slots : ~processTable[i].waiting
    /\ \A w \in Pids : wpc[w] \in {"loop", "wait"}

\* This step serves a fault with every frame occupied: a victim is taken.
Evicting == Serving /\ FreeFrames = {}

\* The slot of the process that owns frame j; -1 if none.
OwnerSlot(j) == FindSlot(processTable, frameTable[j].ownerPid, MAX_PROC)

\* C23: a service step that takes a victim leaves the previous owner's entry for
\* the victim's page at -1, the frame with the faulting process's pid and page,
\* that process's entry for the page at the frame, and no other entry of an
\* occupied slot at the frame. The owner's next reference to the page is then a
\* fault: an entry leaves -1 only when the slot's own fault on that page is
\* served, and a request whose entry is -1 is recorded as a fault.
C23_EvictionRemaps ==
    [][/\ Evicting =>
             LET j == LoadedFrame
                 slot == Head(waitQueue)
                 page == processTable[slot].waitPage
                 owner == OwnerSlot(j)
             IN  /\ owner # -1 =>
                       processTable'[owner].pageTable[frameTable[j].pageNum] = -1
                 /\ frameTable'[j].occupied
                 /\ frameTable'[j].ownerPid = processTable[slot].pid
                 /\ frameTable'[j].pageNum = page
                 /\ processTable'[slot].pageTable[page] = j
                 /\ \A i \in Slots, q \in Pages :
                       (processTable'[i].occupied = 1 /\ <<i, q>> # <<slot, page>>)
                          => processTable'[i].pageTable[q] # j
       /\ \A i \in Slots, q \in Pages :
             (processTable[i].pageTable[q] = -1 /\ processTable'[i].pageTable[q] # -1)
                => (Serving /\ i = Head(waitQueue) /\ q = processTable[i].waitPage)
       /\ (FaultDue /\ pc' # "recv") =>
             (totFaults' = totFaults + 1 /\ processTable'[RequestSlot].waiting)]_vars

----------------------------------------------------------------------------
\* Properties of the dirty bit.

\* The frames this step frees.
Freed == { j \in Frames : frameTable[j].occupied /\ ~frameTable'[j].occupied }

\* C24: the dirty bit of a frame is the mode of the fault whose service loaded
\* it, set by a write hit on it and left alone by a read hit; a frame is freed
\* in the reap only and is then clean; and no other step changes the bit. So
\* an occupied frame is dirty exactly when a write has reached it since its
\* page was loaded.
C24_DirtyFollowsWrites ==
    [][/\ Serving =>
             frameTable'[LoadedFrame].dirty = processTable[Head(waitQueue)].waitIsWrite
       /\ (HitDue /\ pc' # "recv") =>
             frameTable'[HitFrameIndex].dirty
                = (frameTable[HitFrameIndex].dirty \/ NextRequest.isWrite)
       /\ \A j \in Freed : pc = "reap" /\ ~frameTable'[j].dirty
       /\ \A j \in Frames :
             frameTable'[j].dirty # frameTable[j].dirty =>
                \/ Serving /\ j = LoadedFrame
                \/ HitDue /\ j = HitFrameIndex /\ NextRequest.isWrite
                \/ j \in Freed]_vars

\* C24's case: a read hit has just left a frame clean, and the other frame,
\* which a write has reached, is dirty.
C24_Witness ==
    /\ pc = "service"
    /\ totRefs > totFaults
    /\ \E j, k \in Frames :
          /\ frameTable[j].occupied /\ ~frameTable[j].dirty
          /\ frameTable[j].lastRefSec = shm_ptr[0]
          /\ frameTable[j].lastRefNano = shm_ptr[1]
          /\ shm_ptr[1] % 1000 = 100
          /\ frameTable[k].occupied /\ frameTable[k].dirty

----------------------------------------------------------------------------
\* Properties of repeated references.

\* The frames that hold the page of the request about to be taken, loaded for
\* its sender.
FramesOfRequest ==
    { j \in Frames : /\ frameTable[j].occupied
                     /\ frameTable[j].ownerPid = NextRequest.pid
                     /\ frameTable[j].pageNum = RequestPage }

\* The last reference time of frame j after this step.
LastRefAfter(j) == TimeNs(frameTable'[j].lastRefSec, frameTable'[j].lastRefNano)

\* C25: a request for a page that a frame holds for the sender (its fault was
\* served into the frame, and the frame has not been taken since) is a hit on
\* that frame; a hit changes no page-table entry and neither the owner nor the
\* page of the frame; and a hit never leaves the frame with an earlier last
\* reference time than it had, so successive hits give non-decreasing times.
C25_RereadHitsAndAdvances ==
    [][/\ (Accepting /\ pc' # "recv") =>
             \A j \in FramesOfRequest : HitDue /\ HitFrameIndex = j
       /\ (HitDue /\ pc' # "recv") =>
             /\ \A i \in Slots : processTable'[i].pageTable = processTable[i].pageTable
             /\ frameTable'[HitFrameIndex].ownerPid = frameTable[HitFrameIndex].ownerPid
             /\ frameTable'[HitFrameIndex].pageNum = frameTable[HitFrameIndex].pageNum
             /\ LastRefAfter(HitFrameIndex) >= LastRef(HitFrameIndex)]_vars

----------------------------------------------------------------------------
\* Properties of the service time.

\* The service step finds the head of the queue due: the clock is at least the
\* head's latency past its recorded wait time.
HeadDue ==
    /\ pc = "service"
    /\ waitQueue # <<>>
    /\ Waited(Head(waitQueue))
          >= 14000000 + (IF processTable[Head(waitQueue)].waitIsWrite THEN 1000000 ELSE 0)

\* This step serves the first request of the first worker, a read of page 0,
\* no other worker having been admitted.
FirstReadServed ==
    /\ Serving
    /\ total = 1
    /\ totRefs = 1
    /\ processTable[Head(waitQueue)].waitPage = 0
    /\ ~processTable[Head(waitQueue)].waitIsWrite

\* Frame 0 after this step holds page 0 of the process in `slot`, clean.
FirstFrameLoaded(slot) ==
    /\ LoadedFrame = 0
    /\ frameTable'[0].occupied
    /\ frameTable'[0].ownerPid = processTable[slot].pid
    /\ frameTable'[0].pageNum = 0
    /\ ~frameTable'[0].dirty

\* C26 as stated: a fault that is alone in the queue is served when the clock
\* stands at its recorded time plus 14 ms (15 ms for a write), give or take the
\* overhead charges; and the first worker's first request, a read of page 0, is
\* served into frame 0 with the worker's pid, page 0 and dirty = false.
C26_ServedAtLatency ==
    [][/\ (Serving /\ Len(waitQueue) = 1) =>
             LET slot == Head(waitQueue)
                 lat == 14000000 + (IF processTable[slot].waitIsWrite THEN 1000000 ELSE 0)
             IN  /\ Waited(slot) >= lat
                 /\ Waited(slot) <= lat + 2 * 1000
       /\ FirstReadServed => FirstFrameLoaded(Head(waitQueue))]_vars

\* C26 amended: a fault that is alone in the queue is served at the first
\* service step that finds the clock at least 14 ms (15 ms for a write) past its
\* recorded time, and at none before; the service then adds the overhead to the
\* clock, twice for a write. The first worker's first request, a read of page 0,
\* is served into frame 0 with the worker's pid, page 0 and dirty = false.
C26_ServedWhenLatencyPassed ==
    [][/\ (pc = "service" /\ waitQueue # <<>> /\ pc' # "service") =>
             (Serving <=> HeadDue)
       /\ (Serving /\ Len(waitQueue) = 1) =>
             /\ HeadDue
             /\ ServedNow = {Head(waitQueue)}
             /\ TimeNs(shm_ptr'[0], shm_ptr'[1])
                   = TimeNs(shm_ptr[0], shm_ptr[1])
                        + (IF processTable[Head(waitQueue)].waitIsWrite
                           THEN 2 * 1000 ELSE 1000)
       /\ FirstReadServed => FirstFrameLoaded(Head(waitQueue))]_vars

\* C26's case: the first worker's first request, a read of page 0, has been
\* served into frame 0, two ticks after it was recorded.
C26_Witness ==
    /\ pc = "loop"
    /\ total = 1
    /\ totRefs = 1
    /\ totFaults = 1
    /\ waitQueue = <<>>
    /\ frameTable[0].occupied
    /\ frameTable[0].pageNum = 0
    /\ ~frameTable[0].dirty
    /\ \E i \in Slots :
          /\ processTable[i].occupied = 1
          /\ processTable[i].pid = frameTable[0].ownerPid
          /\ processTable[i].pageTable[0] = 0
          /\ TimeNs(frameTable[0].lastRefSec, frameTable[0].lastRefNano)
                - TimeNs(processTable[i].waitSec, processTable[i].waitNano)
                = 2 * TICK_NS

----------------------------------------------------------------------------
\* Properties of a worker's first references.

\* C27: a request is taken as a hit only when the frame its sender's page table
\* names is occupied and holds that page for that sender, which a frame does
\* from the service of the sender's fault on the page until it is taken or
\* freed. So the first reference of a worker to a page, also of a worker in a
\* slot that another has left, is a fault.
C27_HitOnlyOnOwnLoadedPage ==
    [][(HitDue /\ pc' # "recv") => HitFrameIndex \in FramesOfRequest]_vars

----------------------------------------------------------------------------
\* Properties of the replies.

\* The granted replies to worker w that are in the queue.
GrantsInFlight(w) ==
    Cardinality({ k \in 1 .. Len(msgq) : msgq[k] = Grant(w) })

\* C28: a request taken as a hit is answered in the same step with a granted
\* reply of the sender's type; a fault the coordinator has accepted is answered
\* with such a reply within the next two iterations, whatever its place in the
\* queue; and a worker that waits for its reply gets back to its loop. (The
\* iterations a run may start are bounded, so the faults and waits looked at are
\* those with the two, or four, iterations still to come.)
C28_AcceptedIsAnswered ==
    /\ [][(HitDue /\ pc' # "recv") =>
              /\ GrantsInFlight(NextRequest.pid) = 0
              /\ Cardinality({ k \in 1 .. Len(msgq') :
                                  msgq'[k] = Grant(NextRequest.pid) }) = 1]_vars
    /\ \A w \in Pids :
          (FaultsPending(w) = 1 /\ iter <= MaxIter - 2) ~> (GrantsInFlight(w) = 1)
    /\ \A w \in Pids :
          (wpc[w] = "wait" /\ iter <= MaxIter - 4) ~> (wpc[w] = "loop")

\* C28's case: of two faults in the queue the first has been answered, its
\* reply is on the queue, and the second still waits.
C28_Witness ==
    \E w \in Pids, i \in Slots :
        /\ GrantsInFlight(w) = 1
        /\ wpc[w] = "wait"
        /\ FaultsPending(w) = 0
        /\ processTable[i].occupied = 1
        /\ processTable[i].pid # w
        /\ processTable[i].waiting
        /\ waitQueue = <<i>>
        /\ \E j \in Frames : frameTable[j].occupied /\ frameTable[j].ownerPid = w

====
